---------------------------- MODULE Spec2Model ----------------------------
(***************************************************************************)
(* Model of the autoquery client of dgravesa/dynamodb-helpers: the table   *)
(* index metadata parser, the per-client metadata cache, the index         *)
(* viability analysis and the index selection (chooseIndex).               *)
(*                                                                         *)
(* Floating point values are kept as integers: the sparseness threshold is *)
(* counted in tenths (1.1 is 11) and index scores are whole numbers.       *)
(* A Go nil pointer / nil error is the empty sequence, a non-nil one the   *)
(* one-element sequence holding the value.                                 *)
(***************************************************************************)
EXTENDS Integers, Sequences, FiniteSets, TLC

VARIABLES
    threshold,  \* client.SecondaryIndexSparsenessThreshold, in tenths
    cache,      \* client.tableIndexMetadataCache: a map, DOMAIN = the keys
    lastGet,    \* what metadataProvider.Get did during the last call
    ret,        \* what the last pullIndexMetadata / chooseIndex returned
    failed,     \* table names for which a provider Get has failed so far
    okGets,     \* per table name, the number of provider Gets that succeeded
    inTable,    \* the table description the provider serves (selection runs)
    inExpr,     \* the expression of the query (selection runs)
    pc,         \* per goroutine, its position inside pullIndexMetadata
    local,      \* per goroutine, tableName and the parsed indexMetadata
    fatal       \* the Go runtime has stopped the process (concurrent map access)

vars == <<threshold, cache, lastGet, ret, failed, okGets, inTable, inExpr,
          pc, local, fatal>>

-----------------------------------------------------------------------------
(* Bounds of the model *)

MaxGSI == 2
MaxLSI == 2
MaxSelected == 1
NumGoroutines == 2

(* SecondaryIndexSparsenessThreshold set by NewClientWithMetadataProvider: 1.1 *)
DefaultThresholdTenths == 11

-----------------------------------------------------------------------------
(* Inputs: table descriptions (dynamodb.TableDescription) *)

TableNames == {"t1", "t2"}

KeySchemaElement(name, type) == [AttributeName |-> name, KeyType |-> type]

Projection(type, attrs) == [ProjectionType |-> type, NonKeyAttributes |-> attrs]

TableKeySchemas ==
    { <<KeySchemaElement("pk", "HASH")>>,
      <<KeySchemaElement("pk", "HASH"), KeySchemaElement("sk", "RANGE")>> }

GSICandidates ==
    { [IndexName |-> "g1", ItemCount |-> 1,
       KeySchema |-> <<KeySchemaElement("gk", "HASH"), KeySchemaElement("rk", "RANGE")>>,
       Projection |-> Projection("KEYS_ONLY", <<>>)],
      [IndexName |-> "g2", ItemCount |-> 2,
       KeySchema |-> <<KeySchemaElement("gk", "HASH")>>,
       Projection |-> Projection("ALL", <<>>)] }

LSICandidates ==
    { [IndexName |-> "l1", ItemCount |-> 2,
       KeySchema |-> <<KeySchemaElement("pk", "HASH"), KeySchemaElement("rk", "RANGE")>>,
       Projection |-> Projection("ALL", <<>>)],
      [IndexName |-> "l2", ItemCount |-> 1,
       KeySchema |-> <<KeySchemaElement("pk", "HASH"), KeySchemaElement("rk", "RANGE")>>,
       Projection |-> Projection("INCLUDE", <<"a">>)] }

(* Sequences over S of length at most n *)
SeqsUpTo(S, n) == UNION { [1..k -> S] : k \in 0..n }

(* Index names are unique within a table *)
DistinctNames(s) == \A i, j \in 1..Len(s) : s[i].IndexName = s[j].IndexName => i = j

IndexLists(S, n) == { s \in SeqsUpTo(S, n) : DistinctNames(s) }

TableDescriptions ==
    { [ItemCount |-> 2, KeySchema |-> ks,
       GlobalSecondaryIndexes |-> g, LocalSecondaryIndexes |-> l] :
        ks \in TableKeySchemas,
        g \in IndexLists(GSICandidates, MaxGSI),
        l \in IndexLists(LSICandidates, MaxLSI) }

(* The descriptions the provider hands out while the cache is exercised *)
ProviderDescriptions ==
    { d \in TableDescriptions :
        /\ Len(d.KeySchema) = 2
        /\ Len(d.GlobalSecondaryIndexes) <= 1
        /\ d.LocalSecondaryIndexes = <<>> }

ProviderErrors == {"ResourceNotFoundException", "ThrottlingException"}

(* A result of metadataProvider.Get: (tableDescription, err) *)
GetOk(d) == [desc |-> <<d>>, err |-> <<>>]
GetErr(e) == [desc |-> <<>>, err |-> <<[kind |-> "provider", code |-> e, IndexErrs |-> <<>>]>>]

GetResults == { GetOk(d) : d \in ProviderDescriptions } \cup { GetErr(e) : e \in ProviderErrors }

Thresholds == {0, 10, DefaultThresholdTenths}

-----------------------------------------------------------------------------
(* Inputs: expressions *)

FilterKinds == {"equals", "range"}

FilterMaps ==
    { [a \in S |-> IF a = "rk" THEN "range" ELSE f[a]] :
        S \in SUBSET {"pk", "gk", "rk"}, f \in [{"pk", "gk"} -> FilterKinds] }

Selections ==
    { [specified |-> FALSE, attributes |-> <<>>] } \cup
    { [specified |-> TRUE, attributes |-> s] : s \in SeqsUpTo({"a", "b"}, MaxSelected) }

Orders ==
    { [specified |-> FALSE, attribute |-> ""],
      [specified |-> TRUE, attribute |-> "sk"],
      [specified |-> TRUE, attribute |-> "rk"] }

Expressions ==
    { [filters |-> f, consistentRead |-> c,
       orderSpecified |-> o.specified, orderAttribute |-> o.attribute,
       attributesSpecified |-> s.specified, attributes |-> s.attributes] :
        f \in FilterMaps, c \in BOOLEAN, o \in Orders, s \in Selections }

(* The expressions used while the cache is exercised: key conditions only *)
KeyExpressions ==
    { e \in Expressions :
        /\ ~e.orderSpecified
        /\ ~e.attributesSpecified
        /\ DOMAIN e.filters \in {{}, {"pk"}}
        /\ \A a \in DOMAIN e.filters : e.filters[a] = "equals" }

-----------------------------------------------------------------------------
(* Index model (tableIndex) and the metadata parser *)

tablePrimaryIndexName == "#primary"

NoKey == ""

(* tableIndex.loadKeysFromSchema: the HASH element is the partition key, *)
(* the RANGE element, when present, the sort key                         *)
KeyOfType(schema, type) ==
    IF \E i \in 1..Len(schema) : schema[i].KeyType = type
    THEN schema[CHOOSE i \in 1..Len(schema) : schema[i].KeyType = type].AttributeName
    ELSE NoKey

loadKeysFromSchema(index, schema) ==
    [index EXCEPT !.PartitionKey = KeyOfType(schema, "HASH"),
                  !.SortKey = KeyOfType(schema, "RANGE")]

(* tableIndex.getKeys: the key attributes of an index *)
getKeys(index) == {index.PartitionKey, index.SortKey} \ {NoKey}

(* tableIndex.loadAttributesFromProjection *)
loadAttributesFromProjection(index, projection, primaryKeys) ==
    IF projection.ProjectionType = "ALL"
    THEN [index EXCEPT !.IncludesAllAttributes = TRUE]
    ELSE [index EXCEPT !.AttributeSet =
            { projection.NonKeyAttributes[i] : i \in 1..Len(projection.NonKeyAttributes) }
                \cup primaryKeys]

(* tableIndex.inferSparseness: non-sparse when size/tableSize >= threshold *)
inferSparseness(index, tableSize, thresholdTenths) ==
    [index EXCEPT !.IsSparse =
        ~(thresholdTenths <= 0 \/ index.Size * 10 >= thresholdTenths * tableSize)]

(* A tableIndex with Go's zero values for the fields the literal leaves out *)
tableIndex(name, size, includesAll, consistentReadable, isSparse) ==
    [Name |-> name, PartitionKey |-> NoKey, SortKey |-> NoKey, Size |-> size,
     AttributeSet |-> {}, IncludesAllAttributes |-> includesAll,
     ConsistentReadable |-> consistentReadable, IsSparse |-> isSparse]

tablePrimaryIndex(table) ==
    loadKeysFromSchema(
        tableIndex(tablePrimaryIndexName, table.ItemCount, TRUE, TRUE, FALSE),
        table.KeySchema)

parseGlobalSecondaryIndex(gsi, table, thresholdTenths) ==
    inferSparseness(
        loadAttributesFromProjection(
            loadKeysFromSchema(
                tableIndex(gsi.IndexName, gsi.ItemCount, FALSE, FALSE, FALSE),
                gsi.KeySchema),
            gsi.Projection, getKeys(tablePrimaryIndex(table))),
        table.ItemCount, thresholdTenths)

parseLocalSecondaryIndex(lsi, table, thresholdTenths) ==
    inferSparseness(
        loadAttributesFromProjection(
            loadKeysFromSchema(
                tableIndex(lsi.IndexName, lsi.ItemCount, FALSE, TRUE, TRUE),
                lsi.KeySchema),
            lsi.Projection, getKeys(tablePrimaryIndex(table))),
        table.ItemCount, thresholdTenths)

(* Mutant: the local secondary indexes are appended before the global ones *)
Client_parseTableIndexMetadata_LocalFirst(table, thresholdTenths) ==
    [Indexes |->
        <<tablePrimaryIndex(table)>>
        \o [i \in 1..Len(table.LocalSecondaryIndexes) |->
                parseLocalSecondaryIndex(table.LocalSecondaryIndexes[i], table, thresholdTenths)]
        \o [i \in 1..Len(table.GlobalSecondaryIndexes) |->
                parseGlobalSecondaryIndex(table.GlobalSecondaryIndexes[i], table, thresholdTenths)]]

(* Client.parseTableIndexMetadata: Indexes is a slice, appended to in order *)
Client_parseTableIndexMetadata(table, thresholdTenths) ==
    [Indexes |->
        <<tablePrimaryIndex(table)>>
        \o [i \in 1..Len(table.GlobalSecondaryIndexes) |->
                parseGlobalSecondaryIndex(table.GlobalSecondaryIndexes[i], table, thresholdTenths)]
        \o [i \in 1..Len(table.LocalSecondaryIndexes) |->
                parseLocalSecondaryIndex(table.LocalSecondaryIndexes[i], table, thresholdTenths)]]

(* parseTableIndexMetadata of tableindexmetadata.go: Indexes is a map keyed *)
(* by index name; a later assignment to a key replaces the earlier one; no  *)
(* sparseness is inferred                                                   *)
RECURSIVE putAll(_, _)
putAll(m, indexes) ==
    IF indexes = <<>> THEN m
    ELSE putAll([n \in DOMAIN m \cup {Head(indexes).Name} |->
                    IF n = Head(indexes).Name THEN Head(indexes) ELSE m[n]],
                Tail(indexes))

parseTableIndexMetadata(table) ==
    [Indexes |->
        putAll([n \in {tablePrimaryIndexName} |->
                    [tablePrimaryIndex(table) EXCEPT !.IsSparse = FALSE]],
               [i \in 1..Len(table.GlobalSecondaryIndexes) |->
                    loadAttributesFromProjection(
                        loadKeysFromSchema(
                            tableIndex(table.GlobalSecondaryIndexes[i].IndexName,
                                       table.GlobalSecondaryIndexes[i].ItemCount,
                                       FALSE, FALSE, FALSE),
                            table.GlobalSecondaryIndexes[i].KeySchema),
                        table.GlobalSecondaryIndexes[i].Projection,
                        getKeys(tablePrimaryIndex(table)))]
               \o
               [i \in 1..Len(table.LocalSecondaryIndexes) |->
                    loadAttributesFromProjection(
                        loadKeysFromSchema(
                            tableIndex(table.LocalSecondaryIndexes[i].IndexName,
                                       table.LocalSecondaryIndexes[i].ItemCount,
                                       FALSE, TRUE, FALSE),
                            table.LocalSecondaryIndexes[i].KeySchema),
                        table.LocalSecondaryIndexes[i].Projection,
                        getKeys(tablePrimaryIndex(table)))])]

-----------------------------------------------------------------------------
(* Viability analysis *)

(* A reason string: the format of the fmt.Sprintf call and its argument; *)
(* a strings.Join argument is kept as the sequence that is joined        *)
Reason(format, args) == [format |-> format, args |-> args]

ReasonPartitionKey(index) ==
    Reason("expression does not contain an equals condition on attribute: %s",
           <<index.PartitionKey>>)
ReasonConsistency ==
    Reason("global secondary index does not support consistent read", <<>>)
ReasonOrder(index) ==
    Reason("expression specifies order, which requires an index with sort key: %s",
           <<index.SortKey>>)
ReasonMissingAttributes(missing) ==
    Reason("index does not include attributes: %s", missing)
ReasonProjectsAll ==
    Reason("expression does not select attributes, so it requires an index that projects all",
           <<>>)
ReasonSparse(index) ==
    Reason("expression does not filter on sparse secondary index's sort key: %s",
           <<index.SortKey>>)
ReasonNotImplemented == Reason("not yet implemented", <<>>)

(* typesMatch(expr.filters[attr], &equalsFilter{}): a missing key gives nil *)
hasEqualsFilter(expr, attr) ==
    attr \in DOMAIN expr.filters /\ expr.filters[attr] = "equals"

(* _, found := expr.filters[attr] *)
hasFilter(expr, attr) == attr \in DOMAIN expr.filters

(* the selected attributes not found in index.AttributeSet, in selection order *)
indexMissingAttrs(index, expr) ==
    SelectSeq(expr.attributes, LAMBDA a : a \notin index.AttributeSet)

(* Client.listIndexViabilityInfractions *)
listIndexViabilityInfractions(index, expr) ==
    (IF ~hasEqualsFilter(expr, index.PartitionKey)
        THEN <<ReasonPartitionKey(index)>> ELSE <<>>)
    \o
    (IF expr.consistentRead /\ ~index.ConsistentReadable
        THEN <<ReasonConsistency>> ELSE <<>>)
    \o
    (IF expr.orderSpecified /\ expr.orderAttribute # index.SortKey
        THEN <<ReasonOrder(index)>> ELSE <<>>)
    \o
    (IF expr.attributesSpecified
        THEN IF Len(indexMissingAttrs(index, expr)) > 0
                THEN <<ReasonMissingAttributes(indexMissingAttrs(index, expr))>>
                ELSE <<>>
        ELSE IF ~index.IncludesAllAttributes
                THEN <<ReasonProjectsAll>>
                ELSE <<>>)
    \o
    (IF index.IsSparse /\ ~hasFilter(expr, index.SortKey)
        THEN <<ReasonSparse(index)>> ELSE <<>>)

-----------------------------------------------------------------------------
(* Index selection *)

ErrIndexNotViable(name, reasons) == [IndexName |-> name, NotViableReasons |-> reasons]

NoError == <<>>
ErrNoViableIndexes(indexErrs) ==
    <<[kind |-> "ErrNoViableIndexes", code |-> "", IndexErrs |-> indexErrs]>>

(* Mutant: every index is scored without looking at its infractions *)
scoreIndexOnExpr_AcceptsAll(index, expr) == [score |-> 1, err |-> <<>>]

(* Client.scoreIndexOnExpr: (score, *ErrIndexNotViable) *)
scoreIndexOnExpr(index, expr) ==
    IF Len(listIndexViabilityInfractions(index, expr)) > 0
    THEN [score |-> 0,
          err |-> <<ErrIndexNotViable(index.Name, listIndexViabilityInfractions(index, expr))>>]
    ELSE [score |-> 0,
          err |-> <<ErrIndexNotViable(index.Name, <<ReasonNotImplemented>>)>>]

(* Mutant: the loop assigns the latest error instead of appending it *)
RECURSIVE selectLoop_KeepsLastErr(_, _, _, _, _, _)
selectLoop_KeepsLastErr(indexes, i, expr, bestIndex, bestIndexScore, inviableErrs) ==
    IF i > Len(indexes)
    THEN [bestIndex |-> bestIndex, inviableErrs |-> inviableErrs]
    ELSE LET scored == scoreIndexOnExpr(indexes[i], expr) IN
         IF scored.err # <<>>
         THEN selectLoop_KeepsLastErr(indexes, i + 1, expr, bestIndex, bestIndexScore,
                                      scored.err)
         ELSE IF scored.score > bestIndexScore
         THEN selectLoop_KeepsLastErr(indexes, i + 1, expr, <<indexes[i]>>, scored.score,
                                      inviableErrs)
         ELSE selectLoop_KeepsLastErr(indexes, i + 1, expr, bestIndex, bestIndexScore,
                                      inviableErrs)

(* the loop of Client.chooseIndex over indexMetadata.Indexes, from position i *)
RECURSIVE selectLoop(_, _, _, _, _, _)
selectLoop(indexes, i, expr, bestIndex, bestIndexScore, inviableErrs) ==
    IF i > Len(indexes)
    THEN [bestIndex |-> bestIndex, inviableErrs |-> inviableErrs]
    ELSE LET scored == scoreIndexOnExpr(indexes[i], expr) IN
         IF scored.err # <<>>
         THEN selectLoop(indexes, i + 1, expr, bestIndex, bestIndexScore,
                         inviableErrs \o scored.err)
         ELSE IF scored.score > bestIndexScore
         THEN selectLoop(indexes, i + 1, expr, <<indexes[i]>>, scored.score, inviableErrs)
         ELSE selectLoop(indexes, i + 1, expr, bestIndex, bestIndexScore, inviableErrs)

(* Mutant: a failed Get leaves an entry without indexes in the cache *)
pullIndexMetadata_CachesOnError(c, tableName, get, thresholdTenths) ==
    IF tableName \in DOMAIN c
    THEN [meta |-> <<c[tableName]>>, err |-> <<>>, cache |-> c, called |-> FALSE]
    ELSE IF get.err # <<>>
    THEN [meta |-> <<>>, err |-> get.err,
          cache |-> [t \in DOMAIN c \cup {tableName} |->
                        IF t = tableName THEN [Indexes |-> <<>>] ELSE c[t]],
          called |-> TRUE]
    ELSE LET indexMetadata == Client_parseTableIndexMetadata(get.desc[1], thresholdTenths) IN
         [meta |-> <<indexMetadata>>, err |-> <<>>,
          cache |-> [t \in DOMAIN c \cup {tableName} |->
                        IF t = tableName THEN indexMetadata ELSE c[t]],
          called |-> TRUE]

(* Mutant: the cache is never consulted, every call asks the provider *)
pullIndexMetadata_AlwaysFetches(c, tableName, get, thresholdTenths) ==
    IF get.err # <<>>
    THEN [meta |-> <<>>, err |-> get.err, cache |-> c, called |-> TRUE]
    ELSE LET indexMetadata == Client_parseTableIndexMetadata(get.desc[1], thresholdTenths) IN
         [meta |-> <<indexMetadata>>, err |-> <<>>,
          cache |-> [t \in DOMAIN c \cup {tableName} |->
                        IF t = tableName THEN indexMetadata ELSE c[t]],
          called |-> TRUE]

(* Client.pullIndexMetadata on cache map c; get is what the provider would *)
(* return if asked: (indexMetadata, err), the cache afterwards, and        *)
(* whether the provider was asked                                          *)
pullIndexMetadata(c, tableName, get, thresholdTenths) ==
    IF tableName \in DOMAIN c
    THEN [meta |-> <<c[tableName]>>, err |-> NoError, cache |-> c, called |-> FALSE]
    ELSE IF get.err # <<>>
    THEN [meta |-> <<>>, err |-> get.err, cache |-> c, called |-> TRUE]
    ELSE LET indexMetadata == Client_parseTableIndexMetadata(get.desc[1], thresholdTenths) IN
         [meta |-> <<indexMetadata>>, err |-> NoError,
          cache |-> [t \in DOMAIN c \cup {tableName} |->
                        IF t = tableName THEN indexMetadata ELSE c[t]],
          called |-> TRUE]

(* Client.chooseIndex: (index, err), the cache afterwards, provider asked *)
chooseIndex(c, tableName, expr, get, thresholdTenths) ==
    LET pulled == pullIndexMetadata(c, tableName, get, thresholdTenths) IN
    IF pulled.err # <<>>
    THEN [index |-> <<>>, err |-> pulled.err, cache |-> pulled.cache, called |-> pulled.called]
    ELSE LET sel == selectLoop(pulled.meta[1].Indexes, 1, expr, <<>>, 0, <<>>) IN
         IF sel.bestIndex = <<>>
         THEN [index |-> <<>>, err |-> ErrNoViableIndexes(sel.inviableErrs),
               cache |-> pulled.cache, called |-> pulled.called]
         ELSE [index |-> sel.bestIndex, err |-> NoError,
               cache |-> pulled.cache, called |-> pulled.called]

-----------------------------------------------------------------------------
(* The client as a state machine: one call at a time *)

Goroutines == 1..NumGoroutines

NoGet == [called |-> FALSE, tableName |-> "", result |-> <<>>]
Asked(tableName, get) == [called |-> TRUE, tableName |-> tableName, result |-> <<get>>]

NoReturn == [op |-> "", tableName |-> "", meta |-> <<>>, index |-> <<>>, err |-> <<>>]

EmptyCache == [t \in {} |-> <<>>]

Quiet ==
    /\ pc = [g \in Goroutines |-> "idle"]
    /\ local = [g \in Goroutines |-> [tableName |-> "", indexMetadata |-> <<>>]]
    /\ fatal = FALSE

(* NewClientWithMetadataProvider *)
NewClient ==
    /\ threshold = DefaultThresholdTenths
    /\ cache = EmptyCache
    /\ lastGet = NoGet
    /\ ret = NoReturn
    /\ failed = {}
    /\ okGets = [t \in TableNames |-> 0]
    /\ Quiet

AnyTable == CHOOSE d \in TableDescriptions :
                d.GlobalSecondaryIndexes = <<>> /\ d.LocalSecondaryIndexes = <<>>
AnyExpr == CHOOSE e \in KeyExpressions : e.filters = [a \in {} |-> ""]

Init ==
    /\ NewClient
    /\ inTable = AnyTable
    /\ inExpr = AnyExpr

(* the provider's bookkeeping after a call that was handed get *)
Provider(tableName, get, called) ==
    /\ lastGet' = IF called THEN Asked(tableName, get) ELSE NoGet
    /\ failed' = IF called /\ get.err # <<>> THEN failed \cup {tableName} ELSE failed
    /\ okGets' = IF called /\ get.err = <<>>
                 THEN [okGets EXCEPT ![tableName] = @ + 1] ELSE okGets

(* client.SecondaryIndexSparsenessThreshold = v *)
SetThreshold(v) ==
    /\ threshold' = v
    /\ UNCHANGED <<cache, lastGet, ret, failed, okGets, inTable, inExpr, pc, local, fatal>>

(* client.pullIndexMetadata(ctx, tableName) *)
PullIndexMetadata(tableName, get) ==
    LET r == pullIndexMetadata(cache, tableName, get, threshold) IN
    /\ cache' = r.cache
    /\ ret' = [op |-> "pullIndexMetadata", tableName |-> tableName,
               meta |-> r.meta, index |-> <<>>, err |-> r.err]
    /\ Provider(tableName, get, r.called)
    /\ UNCHANGED <<threshold, inTable, inExpr, pc, local, fatal>>

(* client.chooseIndex(ctx, tableName, expr) *)
ChooseIndex(tableName, expr, get) ==
    LET r == chooseIndex(cache, tableName, expr, get, threshold) IN
    /\ cache' = r.cache
    /\ ret' = [op |-> "chooseIndex", tableName |-> tableName,
               meta |-> <<>>, index |-> r.index, err |-> r.err]
    /\ Provider(tableName, get, r.called)
    /\ UNCHANGED <<threshold, inTable, inExpr, pc, local, fatal>>

Next ==
    \/ \E v \in Thresholds : SetThreshold(v)
    \/ \E t \in TableNames, g \in GetResults : PullIndexMetadata(t, g)
    \/ \E t \in TableNames, e \in KeyExpressions, g \in GetResults : ChooseIndex(t, e, g)

Spec == Init /\ [][Next]_vars

-----------------------------------------------------------------------------
(* Selection runs: a client whose threshold was set before its first query, *)
(* a table t1 described by inTable, and the query expression inExpr         *)

InitSelect ==
    /\ threshold \in Thresholds
    /\ cache = EmptyCache
    /\ lastGet = NoGet
    /\ ret = NoReturn
    /\ failed = {}
    /\ okGets = [t \in TableNames |-> 0]
    /\ Quiet
    /\ inTable \in TableDescriptions
    /\ inExpr \in Expressions

NextSelect == ChooseIndex("t1", inExpr, GetOk(inTable))

SpecSelect == InitSelect /\ [][NextSelect]_vars

-----------------------------------------------------------------------------
(* Goroutines calling pullIndexMetadata on one Client.  The client holds no *)
(* lock, so the steps of different goroutines interleave freely.  A map     *)
(* access takes time: "reading" is inside the lookup of line 86, "writing"  *)
(* inside the assignment of line 95, "fetching" inside metadataProvider.Get *)

Reading(g) == pc[g] = "reading"
Writing(g) == pc[g] = "writing"

(* another goroutine is inside a map write *)
WriterBeside(g) == \E h \in Goroutines \ {g} : Writing(h)
(* another goroutine is inside a map access *)
AccessBeside(g) == \E h \in Goroutines \ {g} : Reading(h) \/ Writing(h)

NoLocal == [tableName |-> "", indexMetadata |-> <<>>]

Leave(g) ==
    /\ pc' = [pc EXCEPT ![g] = "idle"]
    /\ local' = [local EXCEPT ![g] = NoLocal]

(* a goroutine enters pullIndexMetadata and starts the lookup (line 86) *)
BeginPull(g, tableName) ==
    /\ ~fatal
    /\ pc[g] = "idle"
    /\ pc' = [pc EXCEPT ![g] = "reading"]
    /\ local' = [local EXCEPT ![g] = [tableName |-> tableName, indexMetadata |-> <<>>]]
    /\ UNCHANGED <<threshold, cache, lastGet, ret, failed, okGets, inTable, inExpr, fatal>>

(* the lookup ends (lines 86-87, 98).  Beside a writer this is a data race: *)
(* the lookup may see the key or not, whatever the map holds                *)
EndLookup(g, found) ==
    /\ ~fatal
    /\ Reading(g)
    /\ IF WriterBeside(g) THEN TRUE ELSE found = (local[g].tableName \in DOMAIN cache)
    /\ IF found
       THEN Leave(g)
       ELSE /\ pc' = [pc EXCEPT ![g] = "fetching"]
            /\ UNCHANGED local
    /\ UNCHANGED <<threshold, cache, lastGet, ret, failed, okGets, inTable, inExpr, fatal>>

(* metadataProvider.Get returns (lines 89-93); on success the description *)
(* is parsed and the map assignment of line 95 starts                     *)
EndGet(g, get) ==
    /\ ~fatal
    /\ pc[g] = "fetching"
    /\ IF get.err # <<>>
       THEN Leave(g)
       ELSE /\ pc' = [pc EXCEPT ![g] = "writing"]
            /\ local' = [local EXCEPT ![g].indexMetadata =
                            <<Client_parseTableIndexMetadata(get.desc[1], threshold)>>]
    /\ UNCHANGED <<threshold, cache, lastGet, ret, failed, okGets, inTable, inExpr, fatal>>

(* the map assignment ends (lines 95, 98) *)
EndStore(g) ==
    /\ ~fatal
    /\ Writing(g)
    /\ cache' = [t \in DOMAIN cache \cup {local[g].tableName} |->
                    IF t = local[g].tableName THEN local[g].indexMetadata[1] ELSE cache[t]]
    /\ Leave(g)
    /\ UNCHANGED <<threshold, lastGet, ret, failed, okGets, inTable, inExpr, fatal>>

(* the runtime notices a map access beside a map write and throws *)
(* "fatal error: concurrent map read and map write" / "concurrent map writes" *)
Throw(g) ==
    /\ ~fatal
    /\ \/ Reading(g) /\ WriterBeside(g)
       \/ Writing(g) /\ AccessBeside(g)
    /\ fatal' = TRUE
    /\ UNCHANGED <<threshold, cache, lastGet, ret, failed, okGets, inTable, inExpr, pc, local>>

NextConcurrent ==
    \/ \E g \in Goroutines, t \in TableNames : BeginPull(g, t)
    \/ \E g \in Goroutines, found \in BOOLEAN : EndLookup(g, found)
    \/ \E g \in Goroutines, get \in GetResults : EndGet(g, get)
    \/ \E g \in Goroutines : EndStore(g)
    \/ \E g \in Goroutines : Throw(g)

SpecConcurrent == Init /\ [][NextConcurrent]_vars

-----------------------------------------------------------------------------
(* Properties of the selection (checked under SpecSelect, where the table *)
(* queried is t1 and the expression is inExpr)                            *)

Chosen == ret.op = "chooseIndex" /\ ret.tableName \in DOMAIN cache

(* the indexes chooseIndex iterated over *)
Indexes == cache[ret.tableName].Indexes

Viable(index) == listIndexViabilityInfractions(index, inExpr) = <<>>

PrimaryOnly ==
    inTable.GlobalSecondaryIndexes = <<>> /\ inTable.LocalSecondaryIndexes = <<>>

(* C1: if some index of the table has no infraction, chooseIndex returns an *)
(* index and a nil error; with only a primary index on pk and an equals     *)
(* filter on pk that passes the other rules, it returns the primary index   *)
C1_ViableIndexIsReturned ==
    Chosen =>
        /\ (\E i \in 1..Len(Indexes) : Viable(Indexes[i]))
                => ret.index # <<>> /\ ret.err = <<>>
        /\ (PrimaryOnly /\ Viable(Indexes[1])) => ret.index = <<Indexes[1]>>

(* C2: a returned index has no infraction and is an index of the table's *)
(* metadata; chooseIndex never returns a nil index with a nil error      *)
C2_ReturnedIndexIsViable ==
    ret.op = "chooseIndex" =>
        /\ ret.index # <<>> =>
                /\ Viable(ret.index[1])
                /\ ret.tableName \in DOMAIN cache
                /\ \E i \in 1..Len(Indexes) : Indexes[i] = ret.index[1]
        /\ ~(ret.index = <<>> /\ ret.err = <<>>)

(* chooseIndex has returned a nil index with an error for a table of at *)
(* least two indexes, one of them without infractions                   *)
C2_Witness ==
    /\ Chosen
    /\ ret.index = <<>> /\ ret.err # <<>>
    /\ Len(Indexes) >= 2
    /\ \E i \in 1..Len(Indexes) : Viable(Indexes[i])

(* the entries of the aggregate error that carry the name of index *)
ErrsNaming(index) ==
    { k \in 1..Len(ret.err[1].IndexErrs) : ret.err[1].IndexErrs[k].IndexName = index.Name }

(* C3: when no index is free of infractions, chooseIndex returns          *)
(* ErrNoViableIndexes with exactly one ErrIndexNotViable per index of the *)
(* table, carrying the index's name and its list of infractions           *)
C3_EveryIndexIsReported ==
    (Chosen /\ \A i \in 1..Len(Indexes) : ~Viable(Indexes[i])) =>
        /\ ret.index = <<>>
        /\ ret.err # <<>>
        /\ ret.err[1].kind = "ErrNoViableIndexes"
        /\ Len(ret.err[1].IndexErrs) = Len(Indexes)
        /\ \A i \in 1..Len(Indexes) :
                /\ Cardinality(ErrsNaming(Indexes[i])) = 1
                /\ \A k \in ErrsNaming(Indexes[i]) :
                        ret.err[1].IndexErrs[k].NotViableReasons
                            = listIndexViabilityInfractions(Indexes[i], inExpr)

(* chooseIndex has returned for a table of three or more indexes, none viable *)
C3_Witness ==
    /\ Chosen
    /\ Len(Indexes) >= 3
    /\ \A i \in 1..Len(Indexes) : ~Viable(Indexes[i])
    /\ \E i \in 1..Len(Indexes) : Len(listIndexViabilityInfractions(Indexes[i], inExpr)) >= 2

(* C4: when the primary index and a secondary index are both free of     *)
(* infractions (their scores are equal), chooseIndex returns the primary *)
C4_PrimaryWinsTie ==
    (/\ Chosen
     /\ Viable(Indexes[1])
     /\ \E i \in 2..Len(Indexes) : Viable(Indexes[i])
     /\ \A i \in 1..Len(Indexes) :
            Viable(Indexes[i]) => scoreIndexOnExpr(Indexes[i], inExpr).score
                                    = scoreIndexOnExpr(Indexes[1], inExpr).score)
        => ret.index = <<Indexes[1]>>

-----------------------------------------------------------------------------
(* Properties of the viability analysis (checked under SpecSelect) *)

(* the selected attributes the index cannot supply: neither in its *)
(* AttributeSet nor covered by IncludesAllAttributes               *)
Unmet(index, expr) ==
    SelectSeq(expr.attributes,
              LAMBDA a : a \notin index.AttributeSet /\ ~index.IncludesAllAttributes)

IsCoverageReason(r) == r.format = "index does not include attributes: %s"

(* C8: with attributes selected, an index gets the attribute-coverage      *)
(* infraction iff some selected attribute is neither in its AttributeSet   *)
(* nor covered by IncludesAllAttributes, and the message lists exactly the *)
(* unmet attributes                                                        *)
C8_CoverageInfraction ==
    (Chosen /\ inExpr.attributesSpecified) =>
        \A i \in 1..Len(Indexes) :
            SelectSeq(listIndexViabilityInfractions(Indexes[i], inExpr), IsCoverageReason)
                = IF Unmet(Indexes[i], inExpr) = <<>>
                  THEN <<>>
                  ELSE <<ReasonMissingAttributes(Unmet(Indexes[i], inExpr))>>

(* The five rules, each on its own *)
RuleViolated(n, index, expr) ==
    CASE n = 1 -> ~(index.PartitionKey \in DOMAIN expr.filters
                        /\ expr.filters[index.PartitionKey] = "equals")
      [] n = 2 -> expr.consistentRead /\ ~index.ConsistentReadable
      [] n = 3 -> expr.orderSpecified /\ expr.orderAttribute # index.SortKey
      [] n = 4 -> IF expr.attributesSpecified
                  THEN Unmet(index, expr) # <<>>
                  ELSE ~index.IncludesAllAttributes
      [] n = 5 -> index.IsSparse /\ index.SortKey \notin DOMAIN expr.filters

RuleReason(n, index, expr) ==
    CASE n = 1 -> ReasonPartitionKey(index)
      [] n = 2 -> ReasonConsistency
      [] n = 3 -> ReasonOrder(index)
      [] n = 4 -> IF expr.attributesSpecified
                  THEN ReasonMissingAttributes(Unmet(index, expr))
                  ELSE ReasonProjectsAll
      [] n = 5 -> ReasonSparse(index)

RulesViolated(index, expr) ==
    SelectSeq(<<1, 2, 3, 4, 5>>, LAMBDA n : RuleViolated(n, index, expr))

(* C9: the result holds one reason per violated rule and none for a        *)
(* satisfied rule, in the order partition key, consistency, ordering,      *)
(* coverage, sparseness; a sparse index gets the sparseness reason exactly *)
(* when the expression has no filter on its sort key                       *)
C9_OneReasonPerViolatedRule ==
    Chosen =>
        \A i \in 1..Len(Indexes) :
            listIndexViabilityInfractions(Indexes[i], inExpr)
                = [k \in 1..Len(RulesViolated(Indexes[i], inExpr)) |->
                        RuleReason(RulesViolated(Indexes[i], inExpr)[k], Indexes[i], inExpr)]

(* What does hold of the code: the same statement for the indexes that do *)
(* not include all attributes, or when no attributes are selected         *)
InfractionsOutsideCoverageSlip ==
    Chosen =>
        \A i \in 1..Len(Indexes) :
            (~Indexes[i].IncludesAllAttributes \/ ~inExpr.attributesSpecified) =>
                listIndexViabilityInfractions(Indexes[i], inExpr)
                    = [k \in 1..Len(RulesViolated(Indexes[i], inExpr)) |->
                            RuleReason(RulesViolated(Indexes[i], inExpr)[k], Indexes[i], inExpr)]

-----------------------------------------------------------------------------
(* Properties of the parser (checked under SpecSelect) *)

NumGSI == Len(inTable.GlobalSecondaryIndexes)
NumLSI == Len(inTable.LocalSecondaryIndexes)

(* C10: parsing yields 1 + g + l entries: the primary index first, then  *)
(* the global secondary indexes in input order, then the local ones; the *)
(* primary includes all attributes, is consistent-readable and not       *)
(* sparse; global indexes are not consistent-readable, local ones are    *)
C10_ParsedIndexes ==
    Chosen =>
        /\ Indexes = Client_parseTableIndexMetadata(inTable, threshold).Indexes
        /\ Len(Indexes) = 1 + NumGSI + NumLSI
        /\ Indexes[1].Name = tablePrimaryIndexName
        /\ Indexes[1].IncludesAllAttributes
        /\ Indexes[1].ConsistentReadable
        /\ ~Indexes[1].IsSparse
        /\ \A i \in 1..NumGSI :
                /\ Indexes[1 + i].Name = inTable.GlobalSecondaryIndexes[i].IndexName
                /\ ~Indexes[1 + i].ConsistentReadable
        /\ \A i \in 1..NumLSI :
                /\ Indexes[1 + NumGSI + i].Name = inTable.LocalSecondaryIndexes[i].IndexName
                /\ Indexes[1 + NumGSI + i].ConsistentReadable
        /\ LET byName == parseTableIndexMetadata(inTable).Indexes IN
                /\ Cardinality(DOMAIN byName) = 1 + NumGSI + NumLSI
                /\ \A n \in DOMAIN byName : byName[n].Name = n
                /\ byName[tablePrimaryIndexName].IncludesAllAttributes
                /\ byName[tablePrimaryIndexName].ConsistentReadable
                /\ ~byName[tablePrimaryIndexName].IsSparse
                /\ \A i \in 1..NumGSI :
                        ~byName[inTable.GlobalSecondaryIndexes[i].IndexName].ConsistentReadable
                /\ \A i \in 1..NumLSI :
                        byName[inTable.LocalSecondaryIndexes[i].IndexName].ConsistentReadable

(* a table with two global and two local secondary indexes has been parsed *)
C10_Witness ==
    /\ Chosen
    /\ NumGSI = 2 /\ NumLSI = 2
    /\ Len(Indexes) = 5

-----------------------------------------------------------------------------
(* Properties of the cache (checked under Spec, one call at a time) *)

GetFailed(get) == get.called /\ get.result[1].err # <<>>

(* C5: when the provider's Get fails for T, the call returns exactly the *)
(* provider's error and nothing else, the cache is left as it was, and   *)
(* every call for a table that is not cached asks the provider           *)
C5_ProviderFailure ==
    [][ /\ GetFailed(lastGet') =>
            /\ ret'.err = lastGet'.result[1].err
            /\ ret'.meta = <<>> /\ ret'.index = <<>>
            /\ ret'.tableName = lastGet'.tableName
            /\ cache' = cache
        /\ (threshold' = threshold /\ ret'.tableName \notin DOMAIN cache) =>
            /\ lastGet'.called
            /\ lastGet'.tableName = ret'.tableName ]_vars

(* a Get for a table has just failed while another table, whose own first *)
(* Get had failed, is cached                                              *)
C5_Witness ==
    /\ GetFailed(lastGet)
    /\ lastGet.tableName \notin DOMAIN cache
    /\ \E t \in failed : t \in DOMAIN cache

(* C6: once a Get for T has succeeded, a later call for T does not ask the *)
(* provider, pullIndexMetadata returns the metadata cached then, the entry *)
(* is never replaced or removed, and no table sees two successful Gets     *)
C6_CacheEntryIsKept ==
    [][ /\ \A t \in DOMAIN cache : t \in DOMAIN cache' /\ cache'[t] = cache[t]
        /\ (threshold' = threshold /\ ret'.tableName \in DOMAIN cache) =>
            /\ lastGet' = NoGet
            /\ ret'.op = "pullIndexMetadata" => ret'.meta = <<cache[ret'.tableName]>>
        /\ \A t \in TableNames : okGets'[t] <= 1 ]_vars

(* pullIndexMetadata has answered from the cache with metadata holding a *)
(* sparse index although the threshold is now 0.0                        *)
C6_Witness ==
    /\ ret.op = "pullIndexMetadata"
    /\ lastGet = NoGet
    /\ ret.meta # <<>>
    /\ threshold = 0
    /\ \E i \in 1..Len(ret.meta[1].Indexes) : ret.meta[1].Indexes[i].IsSparse

-----------------------------------------------------------------------------
(* Properties of concurrent calls (checked under SpecConcurrent) *)

(* C7: no goroutine is inside a write of the cache map while another is *)
(* inside a read or a write of it                                       *)
C7_MapAccessIsExclusive ==
    \A g \in Goroutines : Writing(g) => ~AccessBeside(g)

=============================================================================
